---- MODULE Spec2Model ----
(***************************************************************************)
(* Model of the task tracker's TaskManager (src/main.py): the in-memory    *)
(* task list, the JSON backing file, and the operations add_task,          *)
(* list_tasks, delete_task, mark_done, mark_undone and the constructor.    *)
(* The environment is the wall clock read by datetime.now() and the        *)
(* outcome of opening and writing the backing file.                        *)
(***************************************************************************)
EXTENDS Integers, Sequences, FiniteSets, TLC

VARIABLES
    file,      \* the backing file: [kind, objs]
    mgr,       \* what self.tasks is: "list", "foreign" (json.load gave a non-list), "failed" (__init__ raised)
    tasks,     \* self.tasks when it is a list
    clock,     \* the latest reading of the wall clock, in ticks
    out,       \* what the last call printed, one string per print
    last,      \* the last call: [op, id, description, raised, wr, ret]
    assigned,  \* history: the ids given out on this backing file
    adds,      \* history: how many times add_task has run
    failures   \* environment: how many writes of the backing file have failed

vars == <<file, mgr, tasks, clock, out, last, assigned, adds, failures>>

----------------------------------------------------------------------------
(* Bounds *)

Budget == 3        \* adds, failed writes and clock ticks of a run, together, are at most this many
TicksPerSec == 2   \* clock ticks in a second (a tick stands for a microsecond)

Descriptions == {" ", "milk"}
WriteOutcomes == {"ok", "open_fail", "write_fail"}

\* datetime.now(): the wall clock does not run backwards, so a reading is
\* not earlier than the one before it.
Readings(c) == c..Budget

----------------------------------------------------------------------------
(* datetime.now().isoformat(): seconds, and the fraction only when it is   *)
(* not zero.                                                               *)

Isoformat(t) ==
    IF t % TicksPerSec = 0
    THEN "T" \o ToString(t \div TicksPerSec)
    ELSE "T" \o ToString(t \div TicksPerSec) \o "." \o ToString(t % TicksPerSec)

ClockRange == 0..Budget

\* The instant an ISO string written by Isoformat denotes.
IsoTime(s) == CHOOSE t \in ClockRange : Isoformat(t) = s

----------------------------------------------------------------------------
(* JSON: json.dump writes each task as an object whose members are in the  *)
(* dict's key order; a number is written as its digits, a bool as          *)
(* true/false, a str in double quotes.  KeyOrder is the order in which     *)
(* add_task builds the dict; a task that got its done key from mark_done   *)
(* has it last in the real file, which no reader of the file can observe.  *)

KeyOrder == <<"id", "description", "status", "done", "created_at", "updated_at">>

Quote(s) == "\"" \o s \o "\""

DumpField(task, k) ==
    IF k = "id" THEN ToString(task[k])
    ELSE IF k = "done" THEN (IF task[k] THEN "true" ELSE "false")
    ELSE Quote(task[k])

RECURSIVE DumpMembers(_, _)
DumpMembers(task, i) ==
    IF i > Len(KeyOrder) THEN <<>>
    ELSE IF KeyOrder[i] \in DOMAIN task
         THEN <<(<<KeyOrder[i], DumpField(task, KeyOrder[i])>>)>> \o DumpMembers(task, i + 1)
         ELSE DumpMembers(task, i + 1)

\* Variant: the done member is left out of the object.
DumpTaskWithoutDone(task) ==
    SelectSeq(DumpMembers(task, 1), LAMBDA m : m[1] # "done")

DumpTask(task) == DumpMembers(task, 1)

Dump(ts) == [i \in 1..Len(ts) |-> DumpTask(ts[i])]

NumUniverse == 0..(Budget + 2)
StrUniverse == Descriptions \cup {"todo", "done"} \cup {Isoformat(t) : t \in ClockRange}

\* json.load of one value: the form of the text decides the type.
ParseValue(text) ==
    IF text = "true" THEN TRUE
    ELSE IF text = "false" THEN FALSE
    ELSE IF \E n \in NumUniverse : ToString(n) = text
         THEN CHOOSE n \in NumUniverse : ToString(n) = text
         ELSE CHOOSE s \in StrUniverse : Quote(s) = text

MemberText(obj, k) == (CHOOSE m \in {obj[i] : i \in DOMAIN obj} : m[1] = k)[2]

LoadObject(obj) ==
    [k \in {obj[i][1] : i \in DOMAIN obj} |-> ParseValue(MemberText(obj, k))]

LoadArray(objs) == [i \in 1..Len(objs) |-> LoadObject(objs[i])]

----------------------------------------------------------------------------
(* The backing file *)

\* kind is "missing" (no such path), "unreadable" (open raises IOError),
\* "undecodable" (bytes that are not text in the locale's encoding),
\* "malformed" (text that is not JSON: the empty file, a truncated write),
\* "json_object" (well-formed JSON that is not an array) or "json_array"
\* (an array of task objects, objs).
MissingFile == [kind |-> "missing", objs |-> <<>>]
EmptyFile == [kind |-> "malformed", objs |-> <<>>]
ArrayFile(objs) == [kind |-> "json_array", objs |-> objs]

\* TaskManager._load_tasks: what __init__ gets for self.tasks.
_load_tasks(f) ==
    IF f.kind = "missing" THEN [raised |-> "none", mgr |-> "list", tasks |-> <<>>]
    ELSE IF f.kind = "unreadable" THEN [raised |-> "none", mgr |-> "list", tasks |-> <<>>]
    ELSE IF f.kind = "malformed" THEN [raised |-> "none", mgr |-> "list", tasks |-> <<>>]
    ELSE IF f.kind = "undecodable"
         THEN [raised |-> "UnicodeDecodeError", mgr |-> "failed", tasks |-> <<>>]
    ELSE IF f.kind = "json_object"
         THEN [raised |-> "none", mgr |-> "foreign", tasks |-> <<>>]
    ELSE [raised |-> "none", mgr |-> "list", tasks |-> LoadArray(f.objs)]

\* TaskManager._save_tasks: the file after the write, by the write's outcome.
\* When open fails the file is as it was; when the write fails after
\* open(..., 'w') truncated the file, what is left is not a JSON document.
_save_tasks(f, ts, wr) ==
    IF wr = "ok" THEN ArrayFile(Dump(ts))
    ELSE IF wr = "open_fail" THEN f
    ELSE EmptyFile

SavePrints(wr) ==
    IF wr = "ok" THEN <<>>
    ELSE IF wr = "open_fail" THEN <<"Error saving tasks: [Errno 13] Permission denied">>
    ELSE <<"Error saving tasks: [Errno 28] No space left on device">>

----------------------------------------------------------------------------
(* Helpers of the operations *)

RECURSIVE MaxId(_)
MaxId(ts) ==
    IF Len(ts) = 1 THEN ts[1].id
    ELSE IF ts[1].id > MaxId(Tail(ts)) THEN ts[1].id ELSE MaxId(Tail(ts))

_get_next_id(ts) == IF ts = <<>> THEN 1 ELSE MaxId(ts) + 1

\* The ids a caller may name: those of the stored tasks, and one that no
\* task has.
AbsentId == Budget + 2
IdArgs == {tasks[i].id : i \in DOMAIN tasks} \cup {AbsentId}

\* _find_task: the position of the first task with this id, 0 when none.
_find_task(ts, task_id) ==
    IF \E i \in DOMAIN ts : ts[i].id = task_id
    THEN CHOOSE i \in DOMAIN ts : ts[i].id = task_id /\ \A j \in 1..(i - 1) : ts[j].id # task_id
    ELSE 0

\* task[k] = v on a dict.
SetKey(task, k, v) == [x \in DOMAIN task \cup {k} |-> IF x = k THEN v ELSE task[x]]

\* task.get(k, default)
Get(task, k, default) == IF k \in DOMAIN task THEN task[k] ELSE default

RECURSIVE Spaces(_)
Spaces(n) == IF n <= 0 THEN "" ELSE " " \o Spaces(n - 1)

LJust(s, w) == s \o Spaces(w - Len(s))

FormatLine(task) ==
    LJust(ToString(task.id), 4) \o " "
        \o LJust(IF Get(task, "done", FALSE) THEN "[x]" ELSE "[ ]", 6) \o " "
        \o task.description

RECURSIVE Dashes(_)
Dashes(n) == IF n <= 0 THEN "" ELSE "-" \o Dashes(n - 1)

RuleWidth == 50

ListHeader ==
    <<LJust("ID", 4) \o " " \o LJust("Done", 6) \o " " \o "Description", Dashes(RuleWidth)>>

None == [kind |-> "None", items |-> <<>>]

Call(op, id, description, raised, wr) ==
    [op |-> op, id |-> id, description |-> description, raised |-> raised,
     wr |-> wr, ret |-> None]

\* What is left of the run's budget.
Left == Budget - (adds + failures + clock)

Cost(wr) == IF wr = "ok" THEN 0 ELSE 1

\* A failed write is counted.
Fails(wr) == failures' = failures + Cost(wr)

----------------------------------------------------------------------------
(* Operations *)

\* TaskManager.__init__: a new process starts on the backing file.
Construct ==
    LET r == _load_tasks(file) IN
    /\ mgr' = r.mgr
    /\ tasks' = r.tasks
    /\ out' = <<>>
    /\ last' = Call("init", 0, "", r.raised, "none")
    /\ UNCHANGED <<file, clock, assigned, adds, failures>>

\* One operation on a manager whose self.tasks is a dict: iterating it
\* yields str keys, and key['id'] raises; list_tasks prints its header and
\* then key.get raises.
Foreign(op, id, description) ==
    /\ out' = IF op = "list" THEN ListHeader ELSE <<>>
    /\ last' = Call(op, id, description,
                    IF op = "list" THEN "AttributeError" ELSE "TypeError", "none")
    /\ UNCHANGED <<file, mgr, tasks, clock, assigned, adds, failures>>

add_task(description, wr, t1, t2) ==
    LET task == [id |-> _get_next_id(tasks),
                 description |-> description,
                 status |-> "todo",
                 done |-> FALSE,
                 created_at |-> Isoformat(t1),
                 updated_at |-> Isoformat(t2)]
    IN
    /\ tasks' = Append(tasks, task)
    /\ file' = _save_tasks(file, tasks', wr)
    /\ clock' = t2
    /\ out' = SavePrints(wr) \o <<"Task added successfully (ID: " \o ToString(task.id) \o ")">>
    /\ last' = Call("add", task.id, description, "none", wr)
    /\ assigned' = assigned \cup {task.id}
    /\ adds' = adds + 1
    /\ UNCHANGED mgr
    /\ Fails(wr)

AddTask ==
    \E description \in Descriptions, wr \in WriteOutcomes :
        \E t1 \in Readings(clock) : \E t2 \in Readings(t1) :
            /\ mgr # "failed"
            /\ IF mgr = "foreign"
               THEN wr = "ok" /\ t1 = clock /\ t2 = clock /\ Foreign("add", 0, description)
               ELSE /\ 1 + Cost(wr) + (t2 - clock) <= Left
                    /\ add_task(description, wr, t1, t2)

list_tasks ==
    /\ out' = IF tasks = <<>> THEN <<"No tasks found.">>
              ELSE ListHeader \o [i \in 1..Len(tasks) |-> FormatLine(tasks[i])]
    /\ last' = Call("list", 0, "", "none", "none")
    /\ UNCHANGED <<file, mgr, tasks, clock, assigned, adds, failures>>

ListTasks ==
    /\ mgr # "failed"
    /\ IF mgr = "foreign" THEN Foreign("list", 0, "") ELSE list_tasks

\* Variant: the filter keeps only the tasks with a greater id.
delete_task_greater(task_id, wr) ==
    LET kept == SelectSeq(tasks, LAMBDA task : task.id > task_id) IN
    /\ tasks' = kept
    /\ IF Len(kept) < Len(tasks)
       THEN /\ file' = _save_tasks(file, kept, wr)
            /\ out' = SavePrints(wr) \o <<"Task " \o ToString(task_id) \o " deleted successfully.">>
            /\ last' = Call("delete", task_id, "", "none", wr)
            /\ UNCHANGED <<mgr, clock, assigned, adds>>
            /\ Fails(wr)
       ELSE /\ wr = "ok"
            /\ out' = <<"Task with ID " \o ToString(task_id) \o " not found.">>
            /\ last' = Call("delete", task_id, "", "none", "none")
            /\ UNCHANGED <<file, failures, mgr, clock, assigned, adds>>

delete_task(task_id, wr) ==
    LET kept == SelectSeq(tasks, LAMBDA task : task.id # task_id) IN
    /\ tasks' = kept
    /\ IF Len(kept) < Len(tasks)
       THEN /\ file' = _save_tasks(file, kept, wr)
            /\ out' = SavePrints(wr) \o <<"Task " \o ToString(task_id) \o " deleted successfully.">>
            /\ last' = Call("delete", task_id, "", "none", wr)
            /\ UNCHANGED <<mgr, clock, assigned, adds>>
            /\ Fails(wr)
       ELSE /\ wr = "ok"
            /\ out' = <<"Task with ID " \o ToString(task_id) \o " not found.">>
            /\ last' = Call("delete", task_id, "", "none", "none")
            /\ UNCHANGED <<file, failures, mgr, clock, assigned, adds>>

DeleteTask ==
    \E task_id \in IdArgs, wr \in WriteOutcomes :
        /\ mgr # "failed"
        /\ IF mgr = "foreign"
           THEN wr = "ok" /\ Foreign("delete", task_id, "")
           ELSE /\ Cost(wr) <= Left
                /\ delete_task(task_id, wr)

\* The body shared by mark_done and mark_undone; t is what datetime.now()
\* returns when the task is found.
SetStatus(op, task_id, done, status, word, wr, t) ==
    LET i == _find_task(tasks, task_id) IN
    /\ IF i # 0
       THEN /\ tasks' = [tasks EXCEPT ![i] =
                           SetKey(SetKey(SetKey(@, "done", done), "status", status),
                                  "updated_at", Isoformat(t))]
            /\ clock' = t
            /\ file' = _save_tasks(file, tasks', wr)
            /\ out' = SavePrints(wr) \o <<"Task " \o ToString(task_id) \o " marked as " \o word \o ".">>
            /\ last' = Call(op, task_id, "", "none", wr)
            /\ UNCHANGED <<mgr, assigned, adds>>
            /\ Fails(wr)
       ELSE /\ wr = "ok"
            /\ t = clock
            /\ out' = <<"Task with ID " \o ToString(task_id) \o " not found.">>
            /\ last' = Call(op, task_id, "", "none", "none")
            /\ UNCHANGED <<tasks, file, clock, failures, mgr, assigned, adds>>

\* Variant: the status is left at todo.
mark_done_status_todo(task_id, wr, t) ==
    SetStatus("done", task_id, TRUE, "todo", "done", wr, t)

mark_done(task_id, wr, t) == SetStatus("done", task_id, TRUE, "done", "done", wr, t)

\* Variant: the status is left at done.
mark_undone_status_done(task_id, wr, t) ==
    SetStatus("undone", task_id, FALSE, "done", "undone", wr, t)

mark_undone(task_id, wr, t) == SetStatus("undone", task_id, FALSE, "todo", "undone", wr, t)

MarkDone ==
    \E task_id \in IdArgs, wr \in WriteOutcomes, t \in Readings(clock) :
        /\ mgr # "failed"
        /\ IF mgr = "foreign"
           THEN wr = "ok" /\ t = clock /\ Foreign("done", task_id, "")
           ELSE /\ Cost(wr) + (t - clock) <= Left
                /\ mark_done(task_id, wr, t)

MarkUndone ==
    \E task_id \in IdArgs, wr \in WriteOutcomes, t \in Readings(clock) :
        /\ mgr # "failed"
        /\ IF mgr = "foreign"
           THEN wr = "ok" /\ t = clock /\ Foreign("undone", task_id, "")
           ELSE /\ Cost(wr) + (t - clock) <= Left
                /\ mark_undone(task_id, wr, t)

----------------------------------------------------------------------------
(* Specifications *)

\* A task as add_task writes it, and a task of an older file with no done key.
StoredTask ==
    [id |-> 1, description |-> "milk", status |-> "todo", done |-> FALSE,
     created_at |-> Isoformat(0), updated_at |-> Isoformat(0)]

LegacyTask ==
    [id |-> 1, description |-> "milk", status |-> "done",
     created_at |-> Isoformat(0), updated_at |-> Isoformat(0)]

Start(f) ==
    LET r == _load_tasks(f) IN
    /\ file = f
    /\ mgr = r.mgr
    /\ tasks = r.tasks
    /\ clock = 0
    /\ out = <<>>
    /\ last = Call("init", 0, "", r.raised, "none")
    /\ assigned = {r.tasks[i].id : i \in DOMAIN r.tasks}
    /\ adds = 0
    /\ failures = 0

\* A manager constructed on a file that does not exist, on the empty file
\* the tests create, or on a file an earlier run wrote.
Init == \E f \in {MissingFile, EmptyFile, ArrayFile(Dump(<<StoredTask>>))} : Start(f)

Next ==
    \/ Construct
    \/ AddTask
    \/ ListTasks
    \/ DeleteTask
    \/ MarkDone
    \/ MarkUndone

Spec == Init /\ [][Next]_vars

\* Files the program may find: absent, unreadable, bytes that do not decode,
\* text that is not JSON, a JSON object, and arrays of tasks.
AnyFiles ==
    {MissingFile, EmptyFile,
     [kind |-> "unreadable", objs |-> <<>>],
     [kind |-> "undecodable", objs |-> <<>>],
     [kind |-> "json_object", objs |-> <<>>],
     ArrayFile(<<>>),
     ArrayFile(Dump(<<StoredTask>>)),
     ArrayFile(Dump(<<LegacyTask>>))}

InitAny == \E f \in AnyFiles : Start(f)

SpecAny == InitAny /\ [][Next]_vars

----------------------------------------------------------------------------
(* Properties.  In a step, last' is the call that made it, the unprimed    *)
(* variables are the state the call began in and the primed ones the state *)
(* it left.                                                                *)

Mutations == {"add", "delete", "done", "undone"}

\* description.strip() is empty
Blank(description) == description \in {"", " "}

RemoveAt(s, i) == SubSeq(s, 1, i - 1) \o SubSeq(s, i + 1, Len(s))

\* C1: the ids add_task gives out are strictly increasing, so an id once
\* given out is never given out again, also after its task was deleted and
\* across restarts on the same file.
IdsNeverReused ==
    [][last'.op = "add" => \A id \in assigned : id < last'.id]_vars

\* C2: add with an empty or whitespace-only description raises a
\* ValidationError and changes neither the task list nor the file.
BlankDescriptionRejected ==
    [][(last'.op = "add" /\ Blank(last'.description))
        => /\ last'.raised = "ValidationError"
           /\ tasks' = tasks
           /\ assigned' = assigned
           /\ file' = file]_vars

\* C3: when the write of a mutation fails, the caller gets a
\* PersistenceError, memory has the mutation and the file keeps its
\* previous content.
WriteFailureSignalled ==
    [][(last'.op \in Mutations /\ last'.wr \in {"open_fail", "write_fail"})
        => /\ last'.raised = "PersistenceError"
           /\ tasks' # tasks
           /\ file' = file]_vars

\* C4: the constructor never raises; a file that is missing, unreadable or
\* anything but a well-formed array of tasks gives the empty list, and only
\* a well-formed array gives its tasks.
ConstructNeverRaises ==
    last.op = "init"
        => /\ last.raised = "none"
           /\ mgr = "list"
           /\ IF file.kind = "json_array"
              THEN tasks = LoadArray(file.objs)
              ELSE tasks = <<>>

\* C5: after a mutation whose write succeeded the file holds the in-memory
\* list: a manager constructed on it gets the same tasks, field by field
\* and in the same order.
SavedFileRoundTrips ==
    (last.op \in Mutations /\ last.wr = "ok")
        => /\ file.kind = "json_array"
           /\ Len(file.objs) = Len(tasks)
           /\ _load_tasks(file) = [raised |-> "none", mgr |-> "list", tasks |-> tasks]

SavedFileRoundTripsWitness ==
    /\ last.op = "done"
    /\ last.wr = "ok"
    /\ failures > 0
    /\ Len(tasks) = 2
    /\ tasks[2].status = "done"
    /\ tasks[2].updated_at # tasks[2].created_at

\* C6: delete of a stored id removes that one entry, keeps the others and
\* their order, and saves; delete of an id not stored changes nothing and
\* does not write.
DeleteRemovesExactlyOne ==
    [][last'.op = "delete"
        => LET i == _find_task(tasks, last'.id) IN
           IF i # 0
           THEN /\ tasks' = RemoveAt(tasks, i)
                /\ last'.wr # "none"
                /\ last'.wr = "ok" => file' = ArrayFile(Dump(tasks'))
           ELSE /\ tasks' = tasks
                /\ file' = file
                /\ last'.wr = "none"]_vars

DeleteRemovesExactlyOneWitness ==
    /\ last.op = "delete"
    /\ last.id = 1
    /\ last.wr = "ok"
    /\ assigned = {1, 2}
    /\ Len(tasks) = 1
    /\ tasks[1].id = 2
    /\ file = ArrayFile(Dump(tasks))

\* C7: add with a valid description appends one record with that
\* description, status todo and created_at equal to updated_at, and leaves
\* the records already stored as they were.
AddAppendsOneRecord ==
    [][(last'.op = "add" /\ ~Blank(last'.description))
        => /\ Len(tasks') = Len(tasks) + 1
           /\ SubSeq(tasks', 1, Len(tasks)) = tasks
           /\ tasks'[Len(tasks')].description = last'.description
           /\ tasks'[Len(tasks')].status = "todo"
           /\ tasks'[Len(tasks')].created_at = tasks'[Len(tasks')].updated_at]_vars

DisplayLine(task, completed) ==
    LJust(ToString(task.id), 4) \o " "
        \o LJust(IF completed THEN "[x]" ELSE "[ ]", 6) \o " " \o task.description

Consistent(task) ==
    /\ task.status \in {"todo", "done"}
    /\ "done" \in DOMAIN task => (task.done <=> task.status = "done")

\* C9: every task, in memory and in the file, has status todo or done and
\* a done flag that is true exactly when the status is done; list_tasks
\* shows a task as completed exactly when its status is done.
StatusConsistent ==
    /\ \A i \in DOMAIN tasks : Consistent(tasks[i])
    /\ file.kind = "json_array"
        => \A i \in DOMAIN file.objs : Consistent(LoadObject(file.objs[i]))
    /\ (last.op = "list" /\ tasks # <<>>)
        => /\ Len(out) = Len(tasks) + 2
           /\ \A i \in DOMAIN tasks :
                out[i + 2] = DisplayLine(tasks[i], tasks[i].status = "done")

StatusConsistentWitness ==
    /\ last.op = "list"
    /\ Len(tasks) = 2
    /\ tasks[1].status = "done"
    /\ tasks[2].status = "todo"
    /\ tasks[1].done

\* C10: list_tasks returns a list with one string per stored task, in
\* order, the empty list for an empty store, and changes nothing.
ListReturnsStrings ==
    [][last'.op = "list"
        => /\ last'.ret.kind = "list"
           /\ Len(last'.ret.items) = Len(tasks)
           /\ \A i \in DOMAIN tasks : last'.ret.items[i] = FormatLine(tasks[i])
           /\ tasks' = tasks
           /\ file' = file]_vars

====
